---- MODULE Spec2Model ----
\* Model of the agentic loop of dspy-tool-selection:
\*   ActivityManager.run_activity      (src/agentic_loop/activity_manager.py)
\*   ManualAgentLoop.get_next_action   (src/agentic_loop/manual_agent_loop.py)
\*   AgentReasoner validation          (src/agentic_loop/agent_reasoner.py)
\*   ToolRegistry                      (src/shared/registry.py)
\*   BaseTool.validate_and_execute     (src/tool_selection/base_tool.py)
\*   ToolSetRegistry                   (src/shared/tool_set_registry.py)
\*   ConversationManager               (src/agentic_loop/response_formatter.py)
\* Five specifications: Spec (one activity), AgentSpec (one get_next_action
\* call on a ManualAgentLoop), RegistrySpec (one ToolRegistry under register /
\* clear / execute_tool), ToolSetSpec (one ToolSetRegistry under
\* register_tool_set / clear / execute_tool), HistorySpec (one
\* ConversationManager under add_conversation_entry / _compress_history).
EXTENDS Integers, Sequences, FiniteSets, TLC

\* ------------------------------------------------------------------ bounds
\* max_iterations of an ActivityManager ranges over 0..MaxIterations.
MaxIterations == 3
\* A decision carries at most MaxCalls tool calls.
MaxCalls == 2
\* An activity executes at most MaxToolCalls tool calls in total.
MaxToolCalls == 2
\* max_history_length of a ConversationManager ranges over 0..MaxHistoryLength.
MaxHistoryLength == 2
\* auto_summarize_threshold ranges over 0..MaxSummarizeThreshold.
MaxSummarizeThreshold == 3
\* The list a caller starts with holds at most MaxExisting entries.
MaxExisting == 3
\* At most MaxEntries entries are created, and a list handed to
\* _compress_history holds at most MaxEntries entries.
MaxEntries == 5

\* ------------------------------------------------------- program constants
\* ManualAgentLoop.__init__ / AgentReasoner.__init__: max_iterations: int = 5
DefaultMaxIterations == 5
\* ActivityManager.__init__: timeout_seconds: float = 30.0
DefaultTimeoutSeconds == 30
\* ConversationManager.__init__: max_history_length: int = 10
DefaultMaxHistoryLength == 10
\* ConversationManager.__init__: auto_summarize_threshold: int = 20
DefaultAutoSummarizeThreshold == 20

\* ------------------------------------------------------------------- text
\* A Python str is a sequence of fragments; "" is <<>>; an f-string or a
\* concatenation is \o.  Optional[str] is a record: None or Some(text).
None == [none |-> TRUE, text |-> <<>>]

Some(t) == [none |-> FALSE, text |-> t]

\* Python truthiness of an Optional[str]: None and "" are falsy.
Truthy(o) == (~o.none) /\ o.text # <<>>

\* ------------------------------------------------------------- tool calls
ToolNames == {"search", "calc"}

\* Tool names registered in the ToolRegistry the activity runs against.
Registered == {"calc"}

\* ToolCall(tool_name, arguments); the argument map is one opaque value.
ToolCall(name) == [tool_name |-> name, arguments |-> "args"]

ToolCalls == {ToolCall(n) : n \in ToolNames}

\* All lists of at most n tool calls.
CallSeqs(n) == UNION {[1..k -> ToolCalls] : k \in 0..n}

\* ToolExecutionResult; error_type keeps its default None, execution_time is
\* kept only as "measured" or the literal 0.0 of the fallback branch.
ToolResult(call, ok, res, err, measured) ==
    [tool_name |-> call.tool_name, success |-> ok, result |-> res,
     error |-> err, error_type |-> None, timed |-> measured,
     parameters |-> call.arguments]

\* What a call of tool_registry.execute_tool can meet:
\*   "ok"              the tool validates its arguments and returns a payload
\*   "tool_raises"     validate_and_execute raises (bad arguments or execute)
\*   "not_found"       the name is not registered (execute is never reached)
\*   "registry_raises" execute_tool itself raises (a substituted registry)
Outcomes(call) ==
    {"registry_raises"} \cup
    (IF call.tool_name \in Registered THEN {"ok", "tool_raises"} ELSE {"not_found"})

ToolErrorText == <<"tool failed">>

\* str() of the pydantic ValidationError the argument model raises.
ValidationErrorText == <<"1 validation error for Arguments">>

\* A Python dict, in insertion order: a list of [key, value] items.
EmptyDict == <<>>

Has(d, k) == \E i \in 1..Len(d) : d[i].key = k

Keys(d) == [i \in 1..Len(d) |-> d[i].key]

Lookup(d, k) == d[CHOOSE i \in 1..Len(d) : d[i].key = k].value

\* d[k] = v: an existing key keeps its position, a new key goes last.
DictSet(d, k, v) ==
    IF Has(d, k)
    THEN [i \in 1..Len(d) |-> IF d[i].key = k THEN [key |-> k, value |-> v] ELSE d[i]]
    ELSE Append(d, [key |-> k, value |-> v])

\* What a call that may raise did: it returned a value or raised an exception.
Returns(v) == [raised |-> FALSE, type |-> "", text |-> <<>>, value |-> v]

Raises(type, text) == [raised |-> TRUE, type |-> type, text |-> text, value |-> None]

\* Argument maps a ToolCall may carry; "bad_args" violates the schema the
\* tool declares (a missing or ill-typed field), "args" satisfies it.
ArgumentValues == {"args", "bad_args"}

ValidArguments(arguments) == arguments = "args"

\* BaseTool.validate_and_execute: the arguments are validated by the tool's
\* argument model, which raises ValidationError; then execute runs (`run`
\* is what execute does: Returns(payload) or Raises(type, text)).
ValidateAndExecute(arguments, run) ==
    IF ~ValidArguments(arguments)
    THEN Raises("ValidationError", ValidationErrorText)
    ELSE run

\* ToolRegistry.get_tool on the instance dict: the instance or None.
GetTool(instances, name) ==
    IF Has(instances, name) THEN Some(Lookup(instances, name)) ELSE None

\* ToolRegistry.execute_tool on the instance dict: the lookup, the call of
\* validate_and_execute, and the except branch that converts every exception
\* into a failed result whose error is str(e).
ExecuteToolOn(instances, call, run) ==
    IF GetTool(instances, call.tool_name).none
    THEN ToolResult(call, FALSE, None,
                    Some(<<"Unknown tool: ", call.tool_name>>), TRUE)
    ELSE LET done == ValidateAndExecute(call.arguments, run)
         IN IF done.raised
            THEN ToolResult(call, FALSE, None, Some(done.text), TRUE)
            ELSE ToolResult(call, TRUE, done.value, None, TRUE)

\* The instance dict of the registry an activity runs against.
RegisteredInstances == << [key |-> "calc", value |-> "CalcTool"] >>

\* ToolRegistry.execute_tool of that registry: never raises, converts every
\* failure.
RegistryExecuteTool(call, outcome) ==
    ExecuteToolOn(RegisteredInstances, call,
                  IF outcome = "ok" THEN Returns(Some(<<"payload">>))
                  ELSE Raises("Exception", ToolErrorText))

\* Mutant: the except branch of the loop body builds a result without error.
ExecuteOneTool_NoErrorText(call, outcome) ==
    IF outcome = "registry_raises"
    THEN ToolResult(call, FALSE, None, None, FALSE)
    ELSE RegistryExecuteTool(call, outcome)

\* Loop body of ActivityManager._execute_tools_sequential: one call, with the
\* except branch that builds an error result when execute_tool raises.
ExecuteOneTool(call, outcome) ==
    IF outcome = "registry_raises"
    THEN ToolResult(call, FALSE, None, Some(ToolErrorText), FALSE)
    ELSE RegistryExecuteTool(call, outcome)

\* ---------------------------------------------------------------- decisions
\* ActionType has exactly these four members (no CONTINUE member).
ActionTypes == {"tool_execution", "final_response", "error_recovery", "goal_check"}

\* ActionDecision.  confidence_score is kept in tenths.
Decision(type, why, calls, cont, contWhy, final, conf, iter, maxIter) ==
    [action_type |-> type, reasoning |-> why, tool_calls |-> calls,
     should_continue |-> cont, continuation_reasoning |-> contWhy,
     final_response |-> final, confidence_score |-> conf,
     iteration_count |-> iter, max_iterations |-> maxIter]

\* No decision has been returned yet.
NoDecision == Decision("none", <<>>, <<>>, FALSE, None, None, 0, 0, 0)

\* Optional[List[ToolCall]]: None or a list.
NoCalls == [none |-> TRUE, calls |-> <<>>]

SomeCalls(s) == [none |-> FALSE, calls |-> s]

\* Python truthiness of an Optional[List]: None and [] are falsy.
CallsTruthy(o) == (~o.none) /\ o.calls # <<>>

\* `x or d` for an int x: 0 is falsy.
OrDefault(x, d) == IF x = 0 THEN d ELSE x

MaxIterationsReply ==
    <<"I've reached the maximum number of iterations. Based on the work completed so far, here's what I found.">>

FallbackReply ==
    <<"I've completed the analysis based on the available information.">>

\* A variant of the validation without its last repair: a decision that does
\* not continue may keep an empty final_response.
ValidateReasoningOutput_NoFallback(ro, iteration_count, max_iterations, tool_names) ==
    LET r1 == IF iteration_count >= max_iterations
              THEN [ro EXCEPT
                      !.should_continue = FALSE,
                      !.continuation_reasoning =
                          <<"Maximum iterations (", ToString(max_iterations), ") reached">>]
              ELSE ro
        Valid(c) == c.tool_name \in tool_names
        kept == SelectSeq(r1.tool_calls.calls, Valid)
        r2 == IF r1.should_use_tools /\ CallsTruthy(r1.tool_calls)
              THEN [r1 EXCEPT
                      !.tool_calls = SomeCalls(kept),
                      !.should_use_tools = IF kept = <<>> THEN FALSE ELSE @]
              ELSE r1
        r3 == IF r2.should_use_tools /\ ~CallsTruthy(r2.tool_calls)
              THEN [r2 EXCEPT !.should_use_tools = FALSE]
              ELSE r2
    IN r3

\* A variant of the validation that keeps every tool call the oracle named.
ValidateReasoningOutput_NoFilter(ro, iteration_count, max_iterations, tool_names) ==
    LET r1 == IF iteration_count >= max_iterations
              THEN [ro EXCEPT
                      !.should_continue = FALSE,
                      !.final_response =
                          IF Truthy(@) THEN @ ELSE Some(MaxIterationsReply)]
              ELSE ro
        r3 == IF r1.should_use_tools /\ ~CallsTruthy(r1.tool_calls)
              THEN [r1 EXCEPT !.should_use_tools = FALSE]
              ELSE r1
        r4 == IF (~r3.should_continue) /\ ~Truthy(r3.final_response)
              THEN [r3 EXCEPT !.final_response = Some(FallbackReply)]
              ELSE r3
    IN r4

\* AgentReasoner._validate_reasoning_output: the four repairs, in order.
ValidateReasoningOutput(ro, iteration_count, max_iterations, tool_names) ==
    LET r1 == IF iteration_count >= max_iterations
              THEN [ro EXCEPT
                      !.should_continue = FALSE,
                      !.continuation_reasoning =
                          <<"Maximum iterations (", ToString(max_iterations), ") reached">>,
                      !.final_response =
                          IF Truthy(@) THEN @ ELSE Some(MaxIterationsReply)]
              ELSE ro
        Valid(c) == c.tool_name \in tool_names
        kept == SelectSeq(r1.tool_calls.calls, Valid)
        r2 == IF r1.should_use_tools /\ CallsTruthy(r1.tool_calls)
              THEN [r1 EXCEPT
                      !.tool_calls = SomeCalls(kept),
                      !.should_use_tools = IF kept = <<>> THEN FALSE ELSE @,
                      !.continuation_reasoning =
                          IF kept = <<>>
                          THEN <<"No valid tools available for selected actions">>
                          ELSE @]
              ELSE r1
        r3 == IF r2.should_use_tools /\ ~CallsTruthy(r2.tool_calls)
              THEN [r2 EXCEPT
                      !.should_use_tools = FALSE,
                      !.continuation_reasoning =
                          <<"No specific tools identified for execution">>]
              ELSE r2
        r4 == IF (~r3.should_continue) /\ ~Truthy(r3.final_response)
              THEN [r3 EXCEPT !.final_response = Some(FallbackReply)]
              ELSE r3
    IN r4

\* ManualAgentLoop._create_error_decision.
CreateErrorDecision(error_message, iteration_count, max_iterations) ==
    Decision("error_recovery",
             <<"Error occurred during reasoning: ">> \o error_message,
             <<>>, FALSE, Some(<<"Stopping due to error">>),
             Some(<<"I encountered an error: ">> \o error_message),
             0, iteration_count, max_iterations)

\* A variant that looks at should_continue before the tool calls.
ChosenActionType_StopFirst(ro) ==
    IF ~ro.should_continue THEN "final_response"
    ELSE IF ro.should_use_tools /\ CallsTruthy(ro.tool_calls) THEN "tool_execution"
    ELSE "AttributeError"

\* The action type chosen by ManualAgentLoop._create_action_decision.  The
\* third branch evaluates ActionType.CONTINUE, which is not a member of the
\* enum: the attribute lookup raises AttributeError.
ChosenActionType(ro) ==
    IF ro.should_use_tools /\ CallsTruthy(ro.tool_calls) THEN "tool_execution"
    ELSE IF ~ro.should_continue THEN "final_response"
    ELSE "AttributeError"

\* str() of the AttributeError raised for ActionType.CONTINUE.
AttributeErrorText == <<"CONTINUE">>

\* ManualAgentLoop._create_action_decision, when the action type exists.
CreateActionDecision(ro, iteration_count, max_iterations) ==
    Decision(ChosenActionType(ro), ro.overall_reasoning,
             IF CallsTruthy(ro.tool_calls) THEN ro.tool_calls.calls ELSE <<>>,
             ro.should_continue, Some(ro.continuation_reasoning),
             ro.final_response, ro.confidence,
             iteration_count, max_iterations)

\* An oracle call: it raises (error text) or returns a ReasoningOutput.
OracleRaises(e) == [raised |-> TRUE, error |-> e]

OracleReturns(ro) == [raised |-> FALSE, output |-> ro]

\* ManualAgentLoop.get_next_action driving AgentReasoner.forward: every
\* exception of the try block becomes an ERROR_RECOVERY decision.
GetNextAction(oracle, iteration_count, state_max_iterations, tool_names) ==
    LET max_iter == OrDefault(OrDefault(state_max_iterations, DefaultMaxIterations),
                              DefaultMaxIterations)
    IN IF oracle.raised
       THEN CreateErrorDecision(oracle.error, iteration_count, max_iter)
       ELSE LET ro == ValidateReasoningOutput(oracle.output, iteration_count,
                                              max_iter, tool_names)
            IN IF ChosenActionType(ro) = "AttributeError"
               THEN CreateErrorDecision(AttributeErrorText, iteration_count, max_iter)
               ELSE CreateActionDecision(ro, iteration_count, max_iter)

\* ------------------------------------------------------- activity results
UserQuery == <<"query">>

\* ActivityResult; status "running" stands for "run_activity has not returned".
ActivityResult(status, final_response, iterations, calls, used, errors) ==
    [status |-> status, final_response |-> final_response,
     total_iterations |-> iterations, total_tool_calls |-> calls,
     tools_used |-> used, errors_encountered |-> errors]

NoResult == ActivityResult("running", <<>>, 0, 0, {}, <<>>)

\* Mutant: the success result reports the reasoning, not the final response.
CreateSuccessResult_ReportsReasoning(final_decision, iterations, calls, used, errors) ==
    ActivityResult("completed", final_decision.reasoning,
                   iterations, calls, used, errors)

\* Mutant: the success result has no default for a missing final response.
CreateSuccessResult_NoFallback(final_decision, iterations, calls, used, errors) ==
    ActivityResult("completed", final_decision.final_response.text,
                   iterations, calls, used, errors)

\* ActivityManager._create_success_result
CreateSuccessResult(final_decision, iterations, calls, used, errors) ==
    ActivityResult("completed",
                   IF Truthy(final_decision.final_response)
                   THEN final_decision.final_response.text
                   ELSE <<"Activity completed successfully.">>,
                   iterations, calls, used, errors)

\* ActivityManager._create_error_result
CreateErrorResult(error_message, iterations, calls, used, errors) ==
    ActivityResult("error_recovery", <<"Activity failed: ">> \o error_message,
                   iterations, calls, used, errors)

\* ActivityManager._create_timeout_result
CreateTimeoutResult(timeout, iterations, calls, used, errors) ==
    ActivityResult("terminated",
                   <<"Activity timed out after ", ToString(timeout), " seconds.">>,
                   iterations, calls, used, errors)

\* ActivityManager._create_max_iterations_result
CreateMaxIterationsResult(maxIter, iterations, calls, used, errors) ==
    ActivityResult("max_iterations",
                   <<"Activity reached maximum iterations (", ToString(maxIter), ").">>,
                   iterations, calls, used, errors)

\* ConversationEntry appended after a tool batch.
ConversationEntry(iteration, decision_, results) ==
    [iteration |-> iteration,
     user_input |-> IF iteration = 1 THEN UserQuery ELSE <<"Continue">>,
     response |-> decision_.reasoning,
     tool_calls_made |-> decision_.tool_calls,
     tool_results |-> results]

\* f"{result.error}" of an Optional[str].
FormatOptional(o) == IF o.none THEN <<"None">> ELSE o.text

\* The errors_encountered entries a batch adds: one per failed result.
RECURSIVE BatchErrors(_)
BatchErrors(results) ==
    IF results = <<>> THEN <<>>
    ELSE LET r == Head(results)
         IN (IF r.success THEN <<>>
             ELSE << <<"Tool ", r.tool_name, ": ">> \o FormatOptional(r.error) >>)
            \o BatchErrors(Tail(results))

\* ------------------------------------------------------------------ state
VARIABLES
    agent_loop,            \* "stub": a test double; "manual": ManualAgentLoop
    tool_names,            \* ManualAgentLoop.tool_names
    max_iterations,        \* ActivityManager.max_iterations
    timeout_seconds,       \* ActivityManager.timeout_seconds
    pc,                    \* position in run_activity: head, agent, tools, done
    timed_out,             \* time.time() - start_time > timeout_seconds, now
    iteration_count,       \* conversation_state.iteration_count
    conversation_history,  \* conversation_state.conversation_history
    last_tool_results,     \* conversation_state.last_tool_results
    total_tool_calls, tools_used, errors_encountered,
    decision,              \* action_decision, the last decision returned
    tool_results,          \* results of _execute_tools_sequential so far
    result,                \* the ActivityResult returned
    \* history variables, read by the properties only
    agent_calls,           \* number of get_next_action invocations
    passes,                \* loop bodies entered and left
    nonterminal_only,      \* every decision so far was non-terminal
    escaped,               \* the exception get_next_action raised, if any
    deadline_iteration,    \* iteration_count when the timeout was first exceeded, 0 before
    deadline_call,         \* ... during the oracle call (0) or the i-th tool call (i)
    batch_outcomes,        \* what each call of the current / last batch met
    oracle_plain,          \* manual: every oracle output said "continue, no tools"
    oracle_first,          \* manual: what the first oracle output asked for
    \* a ManualAgentLoop called on its own (src/agentic_loop/manual_agent_loop.py)
    conversation_state,    \* the ConversationState of the last get_next_action call
    oracle_outcome,        \* what the reasoner's oracle did in that call
    reasoning_output,      \* the output AgentReasoner.forward returned, if any
    action_decision,       \* the ActionDecision get_next_action returned
    agent_raised,          \* get_next_action raised instead of returning
    reasoner_calls,        \* oracle invocations made by that call
    \* a ToolRegistry object (src/shared/registry.py)
    _tools,                \* ToolRegistry._tools: name -> tool class
    _instances,            \* ToolRegistry._instances: name -> tool instance
    registry_call,         \* the last method called on the registry
    registry_raised,       \* the exception that call raised, None if it returned
    registry_returned,     \* the ToolExecutionResult execute_tool returned
    tools_before,          \* _tools when that call started
    instances_before,      \* _instances when that call started
    cleared,               \* names that clear() has removed so far
    _loaded_tool_sets,     \* ToolSetRegistry._loaded_tool_sets: name -> description
    \* a ConversationManager object (src/agentic_loop/response_formatter.py)
    max_history_length,    \* ConversationManager.max_history_length
    auto_summarize_threshold,
    entries,               \* the list the caller holds: the last list returned
    updated_entries,       \* entries + [new_entry] of the last call
    compressor,            \* what history_compressor did in the last call
    manager_call,          \* the last method called on the manager
    added,                 \* entries handed to add_conversation_entry so far
    existing,              \* entries the caller's list held at the start
    only_adds,             \* every call so far was add_conversation_entry
    input_entries          \* the list object passed to the last call, after it

vars == <<agent_loop, tool_names, max_iterations, timeout_seconds, pc, timed_out,
          iteration_count, conversation_history, last_tool_results,
          total_tool_calls, tools_used, errors_encountered, decision,
          tool_results, result, agent_calls, passes, nonterminal_only,
          escaped, deadline_iteration, deadline_call, batch_outcomes,
          oracle_plain, oracle_first,
          conversation_state, oracle_outcome, reasoning_output, action_decision,
          agent_raised, reasoner_calls,
          _tools, _instances, registry_call, registry_raised, registry_returned,
          tools_before, instances_before, cleared, _loaded_tool_sets,
          max_history_length, auto_summarize_threshold, entries,
          updated_entries, compressor, manager_call, added, existing,
          only_adds, input_entries>>

\* The ToolRegistry object and what is recorded of the calls made on it.
registry_vars == <<_tools, _instances, registry_call, registry_raised,
                   registry_returned, tools_before, instances_before,
                   cleared, _loaded_tool_sets>>

\* The ConversationManager object and what is recorded of the calls made on it.
manager_vars == <<max_history_length, auto_summarize_threshold, entries,
                  updated_entries, compressor, manager_call, added, existing,
                  only_adds, input_entries>>

\* A ManualAgentLoop called on its own, outside any activity.
agent_vars == <<conversation_state, oracle_outcome, reasoning_output, action_decision,
                agent_raised, reasoner_calls>>

\* Every variable of an activity: an ActivityManager and its run_activity,
\* and the agent loop it is given.
activity_vars == <<agent_loop, tool_names, max_iterations, timeout_seconds, pc,
                   timed_out, iteration_count, conversation_history,
                   last_tool_results, total_tool_calls, tools_used,
                   errors_encountered, decision, tool_results, result,
                   agent_calls, passes, nonterminal_only, escaped,
                   deadline_iteration, deadline_call, batch_outcomes,
                   oracle_plain, oracle_first, agent_vars>>

\* What run_activity never assigns: the manager's configuration, and the
\* registry and conversation manager objects studied on their own below.
config == <<agent_loop, tool_names, max_iterations, timeout_seconds,
            agent_vars, registry_vars, manager_vars>>

\* What the agent loop's oracle was seen to do (history variables).
oracle_seen == <<oracle_plain, oracle_first>>

\* Optional[List[ToolExecutionResult]]
NoResults == [none |-> TRUE, results |-> <<>>]

SomeResults(rs) == [none |-> FALSE, results |-> rs]

\* No ToolExecutionResult.
NoToolResult == [tool_name |-> "", success |-> FALSE, result |-> None,
                 error |-> None, error_type |-> None, timed |-> FALSE,
                 parameters |-> ""]

\* No method has been called on the registry.
NoCall == [op |-> "none", tool_class |-> "", call |-> ToolCall(""), run |-> Returns(None)]

\* A ToolRegistry that is not exercised: the one the activity runs against.
RegistryIdle ==
    /\ _tools = RegisteredInstances
    /\ _instances = RegisteredInstances
    /\ registry_call = NoCall
    /\ registry_raised = Returns(None)
    /\ registry_returned = NoToolResult
    /\ tools_before = RegisteredInstances
    /\ instances_before = RegisteredInstances
    /\ cleared = {}
    /\ _loaded_tool_sets = EmptyDict

\* A ConversationManager that is not exercised.
ManagerIdle ==
    /\ max_history_length = DefaultMaxHistoryLength
    /\ auto_summarize_threshold = DefaultAutoSummarizeThreshold
    /\ entries = <<>>
    /\ updated_entries = <<>>
    /\ compressor = "not_called"
    /\ manager_call = "none"
    /\ added = 0
    /\ existing = 0
    /\ only_adds = TRUE
    /\ input_entries = <<>>

\* No ReasoningOutput: the oracle raised, or was never called.
NoReasoningOutput == [none |-> TRUE]

\* A ManualAgentLoop on which get_next_action has not been called directly.
AgentIdle ==
    /\ conversation_state = [iteration_count |-> 0, max_iterations |-> 0]
    /\ oracle_outcome = [raised |-> FALSE, called |-> FALSE]
    /\ reasoning_output = NoReasoningOutput
    /\ action_decision = NoDecision
    /\ agent_raised = FALSE
    /\ reasoner_calls = 0

\* The state after ActivityManager.__init__, as run_activity starts.
ActivityInit ==
    /\ AgentIdle
    /\ agent_loop \in {"stub", "manual"}
    /\ tool_names \in (IF agent_loop = "manual" THEN {Registered, ToolNames} ELSE {{}})
    /\ max_iterations \in 0..MaxIterations
    /\ timeout_seconds = DefaultTimeoutSeconds
    /\ pc = "head"
    /\ timed_out = FALSE
    /\ iteration_count = 0
    /\ conversation_history = <<>>
    /\ last_tool_results = NoResults
    /\ total_tool_calls = 0
    /\ tools_used = {}
    /\ errors_encountered = <<>>
    /\ decision = NoDecision
    /\ tool_results = <<>>
    /\ result = NoResult
    /\ agent_calls = 0
    /\ passes = 0
    /\ nonterminal_only = TRUE
    /\ escaped = None
    /\ deadline_iteration = 0
    /\ deadline_call = 0
    /\ batch_outcomes = <<>>
    /\ oracle_plain = TRUE
    /\ oracle_first = "none"

\* An activity that is not run.
ActivityIdle ==
    /\ ActivityInit
    /\ agent_loop = "stub"
    /\ max_iterations = 0

Init == ActivityInit /\ RegistryIdle /\ ManagerIdle

\* ----------------------------------------------------------------- inputs
\* Tool calls a decision may still carry under the activity's call budget.
Budget == IF MaxToolCalls - total_tool_calls < MaxCalls
          THEN MaxToolCalls - total_tool_calls ELSE MaxCalls

FinalResponses == {None, Some(<<>>), Some(<<"done">>)}

StubDecision(type, calls, cont, final) ==
    Decision(type, <<"reasoning">>, calls, cont, None, final, 9,
             iteration_count, max_iterations)

\* Decisions a substituted agent loop returns.  "continue" stands for any
\* action type outside the four the controller dispatches on.
StubDecisions ==
    {StubDecision("final_response", <<>>, FALSE, f) : f \in FinalResponses}
    \cup {StubDecision("error_recovery", c, FALSE, None) : c \in CallSeqs(1)}
    \cup {StubDecision("goal_check", <<>>, b, None) : b \in BOOLEAN}
    \cup {StubDecision("continue", <<>>, TRUE, None)}
    \cup {StubDecision("tool_execution", c, TRUE, None) : c \in CallSeqs(Budget)}
    \cup {StubDecision("tool_execution", c, FALSE, f) :
              c \in CallSeqs(Budget), f \in FinalResponses}

\* Exception texts: str(e) of what the agent loop or the oracle raises.
ExceptionTexts == {<<"boom">>, <<>>}

ReasoningOutput(useTools, calls, cont, final) ==
    [overall_reasoning |-> <<"reasoning">>, confidence |-> 9,
     should_use_tools |-> useTools, tool_calls |-> calls,
     should_continue |-> cont,
     continuation_reasoning |-> <<"continuation">>,
     final_response |-> final]

\* What one oracle call of the manual agent loop can produce.
OracleOutcomes ==
    {OracleRaises(e) : e \in ExceptionTexts}
    \cup {OracleReturns(ReasoningOutput(u, c, k, f)) :
              u \in BOOLEAN,
              c \in {NoCalls} \cup {SomeCalls(q) : q \in CallSeqs(Budget)},
              k \in BOOLEAN,
              f \in FinalResponses}

\* The oracle said "continue" and asked for no tool.
PlainContinue(oracle) ==
    /\ ~oracle.raised
    /\ oracle.output.should_continue
    /\ ~oracle.output.should_use_tools
    /\ ~CallsTruthy(oracle.output.tool_calls)

\* The oracle asked for the tool "search", and to continue afterwards.
RequestsSearchAndContinues(oracle) ==
    /\ ~oracle.raised
    /\ oracle.output.should_use_tools
    /\ oracle.output.tool_calls = SomeCalls(<<ToolCall("search")>>)
    /\ oracle.output.should_continue

\* A decision that ends the activity, as the controller is specified.
Terminal(d) ==
    \/ d.action_type \in {"final_response", "error_recovery"}
    \/ d.action_type = "tool_execution" /\ ~d.should_continue

\* ---------------------------------------------------------------- actions
\* Wall-clock time passes during a blocking call (the oracle or a tool): the
\* elapsed time may come to exceed timeout_seconds, and then stays above it.
TimePasses(late) ==
    /\ timed_out' = (timed_out \/ late)
    /\ IF late /\ ~timed_out
       THEN /\ deadline_iteration' = iteration_count
            /\ deadline_call' = IF pc = "agent" THEN 0 ELSE Len(tool_results) + 1
       ELSE UNCHANGED <<deadline_iteration, deadline_call>>

\* Mutant: the while condition is off by one (<=).
LoopCondition_Inclusive == iteration_count <= max_iterations

\* Line 90: the while condition.
LoopCondition == iteration_count < max_iterations

\* Mutant: the timeout test is missing.
TimeoutExceeded_Never == FALSE

\* Line 92: the timeout test, sampled at the top of the loop body.
TimeoutExceeded == timed_out

\* Mutant: the timeout is tested after iteration_count += 1.
TimeoutCheck_AfterIncrement ==
    /\ pc = "head"
    /\ iteration_count < max_iterations
    /\ timed_out
    /\ iteration_count' = iteration_count + 1
    /\ result' = CreateTimeoutResult(timeout_seconds, iteration_count + 1,
                                     total_tool_calls, tools_used, errors_encountered)
    /\ pc' = "done"
    /\ UNCHANGED <<config, timed_out, conversation_history,
                   last_tool_results, total_tool_calls, tools_used,
                   errors_encountered, decision, tool_results, agent_calls,
                   passes, nonterminal_only, escaped, deadline_iteration,
                   deadline_call, batch_outcomes, oracle_seen>>

\* Line 90-96: the loop is entered and the timeout check fires.
TimeoutCheck ==
    /\ pc = "head"
    /\ LoopCondition
    /\ TimeoutExceeded
    /\ result' = CreateTimeoutResult(timeout_seconds, iteration_count,
                                     total_tool_calls, tools_used, errors_encountered)
    /\ pc' = "done"
    /\ UNCHANGED <<config, timed_out, iteration_count, conversation_history,
                   last_tool_results, total_tool_calls, tools_used,
                   errors_encountered, decision, tool_results, agent_calls,
                   passes, nonterminal_only, escaped, deadline_iteration,
                   deadline_call, batch_outcomes, oracle_seen>>

\* Mutant: iteration_count is incremented twice per pass.
BeginIteration_DoubleIncrement ==
    /\ pc = "head"
    /\ iteration_count < max_iterations
    /\ ~timed_out
    /\ iteration_count' = iteration_count + 2
    /\ pc' = "agent"
    /\ UNCHANGED <<config, timed_out, conversation_history, last_tool_results,
                   total_tool_calls, tools_used, errors_encountered, decision,
                   tool_results, result, agent_calls, passes, nonterminal_only,
                   escaped, deadline_iteration, deadline_call, batch_outcomes,
                   oracle_seen>>

\* Line 90-99: the loop is entered, no timeout, iteration_count += 1.
BeginIteration ==
    /\ pc = "head"
    /\ LoopCondition
    /\ ~TimeoutExceeded
    /\ iteration_count' = iteration_count + 1
    /\ pc' = "agent"
    /\ UNCHANGED <<config, timed_out, conversation_history, last_tool_results,
                   total_tool_calls, tools_used, errors_encountered, decision,
                   tool_results, result, agent_calls, passes, nonterminal_only,
                   escaped, deadline_iteration, deadline_call, batch_outcomes,
                   oracle_seen>>

\* Line 90, 162-166: the loop condition fails.
MaxIterationsReached ==
    /\ pc = "head"
    /\ ~LoopCondition
    /\ result' = CreateMaxIterationsResult(max_iterations, iteration_count,
                                           total_tool_calls, tools_used,
                                           errors_encountered)
    /\ pc' = "done"
    /\ UNCHANGED <<config, timed_out, iteration_count, conversation_history,
                   last_tool_results, total_tool_calls, tools_used,
                   errors_encountered, decision, tool_results, agent_calls,
                   passes, nonterminal_only, escaped, deadline_iteration,
                   deadline_call, batch_outcomes, oracle_seen>>

\* A variant of the metrics update that counts a tool as used only when its
\* call succeeded.
RecordBatch_UsedOnlySuccessful(d, results) ==
    LET calls == total_tool_calls + Len(results)
        used == tools_used \cup {results[i].tool_name :
                                     i \in {k \in 1..Len(results) : results[k].success}}
        errors == errors_encountered \o BatchErrors(results)
    IN /\ total_tool_calls' = calls
       /\ tools_used' = used
       /\ errors_encountered' = errors
       /\ last_tool_results' = SomeResults(results)
       /\ conversation_history' =
              Append(conversation_history,
                     ConversationEntry(iteration_count, d, results))
       /\ tool_results' = <<>>
       /\ passes' = passes + 1
       /\ IF ~d.should_continue
          THEN /\ result' = CreateSuccessResult(d, iteration_count, calls, used, errors)
               /\ pc' = "done"
          ELSE /\ result' = result
               /\ pc' = "head"

\* Line 126-152: a finished batch is counted, recorded, and ends the activity
\* when the decision says not to continue.
RecordBatch(d, results) ==
    LET calls == total_tool_calls + Len(results)
        used == tools_used \cup {results[i].tool_name : i \in 1..Len(results)}
        errors == errors_encountered \o BatchErrors(results)
    IN /\ total_tool_calls' = calls
       /\ tools_used' = used
       /\ errors_encountered' = errors
       /\ last_tool_results' = SomeResults(results)
       /\ conversation_history' =
              Append(conversation_history,
                     ConversationEntry(iteration_count, d, results))
       /\ tool_results' = <<>>
       /\ passes' = passes + 1
       /\ IF ~d.should_continue
          THEN /\ result' = CreateSuccessResult(d, iteration_count, calls, used, errors)
               /\ pc' = "done"
          ELSE /\ result' = result
               /\ pc' = "head"

\* Mutant: a GOAL_CHECK decision is taken for the final response.
Branch_GoalCheckStops(d) ==
    IF d.action_type \in {"final_response", "goal_check"} THEN "return_success"
    ELSE IF d.action_type = "error_recovery" THEN "return_error"
    ELSE IF d.action_type = "tool_execution" THEN "execute_tools"
    ELSE "continue"

\* Mutant: an ERROR_RECOVERY decision is retried in the next iteration.
Branch_ErrorRetries(d) ==
    IF d.action_type = "final_response" THEN "return_success"
    ELSE IF d.action_type = "tool_execution" THEN "execute_tools"
    ELSE "continue"

\* Line 105-160: the branch of the if / elif chain a decision takes.
Branch(d) ==
    IF d.action_type = "final_response" THEN "return_success"
    ELSE IF d.action_type = "error_recovery" THEN "return_error"
    ELSE IF d.action_type = "tool_execution" THEN "execute_tools"
    ELSE "continue"

\* Mutant: the batch is abandoned at the first failed call.
BatchDone_StopsOnFailure(results, calls) ==
    \/ Len(results) = Len(calls)
    \/ Len(results) > 0 /\ ~results[Len(results)].success

\* Line 190: the for loop of _execute_tools_sequential has consumed every call.
BatchDone(results, calls) == Len(results) = Len(calls)

\* Line 104-160: the dispatch on the decision get_next_action returned.
Dispatch(d) ==
    /\ decision' = d
    /\ agent_calls' = agent_calls + 1
    /\ nonterminal_only' = (nonterminal_only /\ ~Terminal(d))
    /\ batch_outcomes' = IF Branch(d) = "execute_tools" THEN <<>> ELSE batch_outcomes
    /\ UNCHANGED <<config, iteration_count, escaped>>
    /\ IF Branch(d) = "return_success"
       THEN /\ result' = CreateSuccessResult(d, iteration_count, total_tool_calls,
                                             tools_used, errors_encountered)
            /\ pc' = "done"
            /\ passes' = passes + 1
            /\ UNCHANGED <<conversation_history, last_tool_results, total_tool_calls,
                           tools_used, errors_encountered, tool_results>>
       ELSE IF Branch(d) = "return_error"
       THEN /\ errors_encountered' = Append(errors_encountered, d.reasoning)
            /\ result' = CreateErrorResult(d.reasoning, iteration_count,
                                           total_tool_calls, tools_used,
                                           Append(errors_encountered, d.reasoning))
            /\ pc' = "done"
            /\ passes' = passes + 1
            /\ UNCHANGED <<conversation_history, last_tool_results, total_tool_calls,
                           tools_used, tool_results>>
       ELSE IF Branch(d) = "execute_tools"
       THEN IF BatchDone(<<>>, d.tool_calls)
            THEN RecordBatch(d, <<>>)
            ELSE /\ pc' = "tools"
                 /\ tool_results' = <<>>
                 /\ UNCHANGED <<conversation_history, last_tool_results,
                                total_tool_calls, tools_used, errors_encountered,
                                result, passes>>
       ELSE /\ pc' = "head"
            /\ passes' = passes + 1
            /\ UNCHANGED <<conversation_history, last_tool_results, total_tool_calls,
                           tools_used, errors_encountered, tool_results, result>>

\* Line 102: a substituted agent loop returns a decision.
StubAgentReturns ==
    /\ pc = "agent"
    /\ agent_loop = "stub"
    /\ \E d \in StubDecisions, late \in BOOLEAN :
           /\ TimePasses(late)
           /\ Dispatch(d)
    /\ UNCHANGED oracle_seen

\* Mutant: the loop is not wrapped in try / except, the exception leaves
\* run_activity.
StubAgentRaises_Uncaught ==
    /\ pc = "agent"
    /\ agent_loop = "stub"
    /\ \E e \in ExceptionTexts, late \in BOOLEAN :
           /\ TimePasses(late)
           /\ escaped' = Some(e)
    /\ pc' = "propagated"
    /\ agent_calls' = agent_calls + 1
    /\ passes' = passes + 1
    /\ nonterminal_only' = FALSE
    /\ UNCHANGED <<config, iteration_count, conversation_history,
                   last_tool_results, total_tool_calls, tools_used,
                   errors_encountered, result, decision,
                   tool_results, batch_outcomes, oracle_seen>>

\* Line 102, 168-176: a substituted agent loop raises.
StubAgentRaises ==
    /\ pc = "agent"
    /\ agent_loop = "stub"
    /\ \E e \in ExceptionTexts, late \in BOOLEAN :
           LET error_msg == <<"Unexpected error: ">> \o e
           IN /\ TimePasses(late)
              /\ escaped' = Some(e)
              /\ errors_encountered' = Append(errors_encountered, error_msg)
              /\ result' = CreateErrorResult(error_msg, iteration_count,
                                             total_tool_calls, tools_used,
                                             Append(errors_encountered, error_msg))
    /\ pc' = "done"
    /\ agent_calls' = agent_calls + 1
    /\ passes' = passes + 1
    /\ nonterminal_only' = FALSE
    /\ UNCHANGED <<config, iteration_count, conversation_history,
                   last_tool_results, total_tool_calls, tools_used, decision,
                   tool_results, batch_outcomes, oracle_seen>>

\* Line 102: ManualAgentLoop.get_next_action around one oracle call.
ManualAgentReturns ==
    /\ pc = "agent"
    /\ agent_loop = "manual"
    /\ \E oracle \in OracleOutcomes, late \in BOOLEAN :
           /\ TimePasses(late)
           /\ Dispatch(GetNextAction(oracle, iteration_count, max_iterations,
                                     tool_names))
           /\ oracle_plain' = (oracle_plain /\ PlainContinue(oracle))
           /\ oracle_first' = IF agent_calls > 0 THEN oracle_first
                              ELSE IF RequestsSearchAndContinues(oracle)
                              THEN "search_continue" ELSE "other"

\* Line 124, 188-208: the next call of the batch is executed; after the last
\* one the batch is recorded.
ExecuteTool ==
    /\ pc = "tools"
    /\ LET call == decision.tool_calls[Len(tool_results) + 1]
       IN \E outcome \in Outcomes(call), late \in BOOLEAN :
              LET results == Append(tool_results, ExecuteOneTool(call, outcome))
              IN /\ TimePasses(late)
                 /\ batch_outcomes' = Append(batch_outcomes, outcome)
                 /\ IF BatchDone(results, decision.tool_calls)
                    THEN RecordBatch(decision, results)
                    ELSE /\ tool_results' = results
                         /\ pc' = "tools"
                         /\ UNCHANGED <<conversation_history, last_tool_results,
                                        total_tool_calls, tools_used,
                                        errors_encountered, result, passes>>
    /\ UNCHANGED <<config, iteration_count, decision, agent_calls,
                   nonterminal_only, escaped, oracle_seen>>

Next ==
    \/ TimeoutCheck
    \/ BeginIteration
    \/ MaxIterationsReached
    \/ StubAgentReturns
    \/ StubAgentRaises
    \/ ManualAgentReturns
    \/ ExecuteTool

Spec == Init /\ [][Next]_vars

\* -------------------------------------------------------- ManualAgentLoop
\* get_next_action called directly on a ManualAgentLoop, as its tests do, with
\* any conversation state and any behaviour of the reasoner's oracle.

\* `conversation_state.max_iterations or self.max_iterations`, then
\* `max_iterations or self.max_iterations` in AgentReasoner.forward.
EffectiveMaxIterations(state_max_iterations) ==
    OrDefault(OrDefault(state_max_iterations, DefaultMaxIterations),
              DefaultMaxIterations)

\* ConversationState, as far as get_next_action reads it.
ConversationStates ==
    [iteration_count : 0..MaxIterations, max_iterations : 0..MaxIterations]

AgentInit ==
    /\ ActivityInit
    /\ agent_loop = "manual"
    /\ max_iterations = 0
    /\ RegistryIdle
    /\ ManagerIdle

\* A variant of get_next_action without the try/except: what the oracle
\* raises reaches the caller.
GetNextActionCall_Uncaught ==
    \E state \in ConversationStates, o \in OracleOutcomes :
        /\ reasoner_calls = 0
        /\ conversation_state' = state
        /\ oracle_outcome' = o
        /\ reasoner_calls' = 1
        /\ reasoning_output' =
               IF o.raised THEN NoReasoningOutput
               ELSE ValidateReasoningOutput(
                        o.output, state.iteration_count,
                        EffectiveMaxIterations(state.max_iterations), tool_names)
        /\ action_decision' =
               IF o.raised THEN NoDecision
               ELSE GetNextAction(o, state.iteration_count,
                                  state.max_iterations, tool_names)
        /\ agent_raised' = o.raised
        /\ UNCHANGED <<agent_loop, tool_names, max_iterations, timeout_seconds,
                       pc, timed_out, iteration_count, conversation_history,
                       last_tool_results, total_tool_calls, tools_used,
                       errors_encountered, decision, tool_results, result,
                       agent_calls, passes, nonterminal_only, escaped,
                       deadline_iteration, deadline_call, batch_outcomes,
                       oracle_plain, oracle_first, registry_vars, manager_vars>>

\* One call of ManualAgentLoop.get_next_action.  The agent loop keeps nothing
\* from one call to the next, so a single call per behaviour covers them all.
GetNextActionCall ==
    \E state \in ConversationStates, o \in OracleOutcomes :
        /\ reasoner_calls = 0
        /\ conversation_state' = state
        /\ oracle_outcome' = o
        /\ reasoner_calls' = 1
        /\ reasoning_output' =
               IF o.raised THEN NoReasoningOutput
               ELSE ValidateReasoningOutput(
                        o.output, state.iteration_count,
                        EffectiveMaxIterations(state.max_iterations), tool_names)
        /\ action_decision' = GetNextAction(o, state.iteration_count,
                                            state.max_iterations, tool_names)
        /\ agent_raised' = FALSE
        /\ UNCHANGED <<agent_loop, tool_names, max_iterations, timeout_seconds,
                       pc, timed_out, iteration_count, conversation_history,
                       last_tool_results, total_tool_calls, tools_used,
                       errors_encountered, decision, tool_results, result,
                       agent_calls, passes, nonterminal_only, escaped,
                       deadline_iteration, deadline_call, batch_outcomes,
                       oracle_plain, oracle_first, registry_vars, manager_vars>>

AgentNext == GetNextActionCall

AgentSpec == AgentInit /\ [][AgentNext]_vars

\* ----------------------------------------------------------- ToolRegistry
\* Tool classes handed to register.  CalcTool and CalcToolV2 declare the same
\* NAME; BrokenTool is a class whose constructor raises.
ToolClasses == {"CalcTool", "CalcToolV2", "SearchTool", "BrokenTool"}

\* tool_class.NAME
NAME(tool_class) ==
    CASE tool_class \in {"CalcTool", "CalcToolV2"} -> "calc"
      [] tool_class = "SearchTool" -> "search"
      [] OTHER -> "broken"

\* tool_class() raises.
ConstructorRaises(tool_class) == tool_class = "BrokenTool"

ConstructorErrorText == <<"1 validation error for ToolArgument">>

\* Tool calls handed to execute_tool: every name a class declares, with
\* arguments that satisfy or violate the tool's schema.
RegistryToolCalls ==
    {[tool_name |-> NAME(c), arguments |-> a] : c \in ToolClasses, a \in ArgumentValues}

\* What a tool's execute does once its arguments are validated: it returns a
\* payload (or None), or raises; a tool may itself raise a ValidationError.
Runs ==
    {Returns(Some(<<"payload">>)), Returns(None),
     Raises("Exception", ToolErrorText),
     Raises("ValidationError", ValidationErrorText)}

\* The record of a call on the registry.
RegistryCall(op, tool_class, call, run) ==
    [op |-> op, tool_class |-> tool_class, call |-> call, run |-> run]

RegistryInit ==
    /\ ActivityIdle
    /\ ManagerIdle
    /\ _tools = EmptyDict
    /\ _instances = EmptyDict
    /\ registry_call = NoCall
    /\ registry_raised = Returns(None)
    /\ registry_returned = NoToolResult
    /\ tools_before = EmptyDict
    /\ instances_before = EmptyDict
    /\ cleared = {}
    /\ _loaded_tool_sets = EmptyDict

\* Every call records the dicts it started from.
RegistryCallStarts ==
    /\ tools_before' = _tools
    /\ instances_before' = _instances

\* Mutant: register does not test for an existing name.
AlreadyRegistered_Never(tools, tool_name) == FALSE

\* Line 41: tool_name in self._tools
AlreadyRegistered(tools, tool_name) == Has(tools, tool_name)

\* ToolRegistry.register(tool_class): ValueError for a registered name;
\* otherwise the class is stored, then the instance is created and cached
\* (a raising constructor leaves the class stored without an instance).
Register ==
    \E tool_class \in ToolClasses :
        LET tool_name == NAME(tool_class)
        IN /\ RegistryCallStarts
           /\ registry_call' = RegistryCall("register", tool_class, ToolCall(tool_name),
                                            Returns(None))
           /\ registry_returned' = NoToolResult
           /\ IF AlreadyRegistered(_tools, tool_name)
              THEN /\ registry_raised' =
                          Raises("ValueError",
                                 <<"Tool '", tool_name, "' is already registered.">>)
                   /\ UNCHANGED <<_tools, _instances>>
              ELSE /\ _tools' = DictSet(_tools, tool_name, tool_class)
                   /\ IF ConstructorRaises(tool_class)
                      THEN /\ registry_raised' = Raises("ValidationError", ConstructorErrorText)
                           /\ UNCHANGED _instances
                      ELSE /\ registry_raised' = Returns(None)
                           /\ _instances' = DictSet(_instances, tool_name, tool_class)
           /\ UNCHANGED <<cleared, _loaded_tool_sets,
                   activity_vars, manager_vars>>

\* Mutant: clear forgets the classes and keeps the cached instances.
Clear_KeepsInstances ==
    /\ RegistryCallStarts
    /\ registry_call' = RegistryCall("clear", "", ToolCall(""), Returns(None))
    /\ registry_raised' = Returns(None)
    /\ registry_returned' = NoToolResult
    /\ _tools' = EmptyDict
    /\ cleared' = cleared \cup {_tools[i].key : i \in 1..Len(_tools)}
    /\ UNCHANGED <<_instances, _loaded_tool_sets,
                   activity_vars, manager_vars>>

\* ToolRegistry.clear(): both dicts are emptied.
Clear ==
    /\ RegistryCallStarts
    /\ registry_call' = RegistryCall("clear", "", ToolCall(""), Returns(None))
    /\ registry_raised' = Returns(None)
    /\ registry_returned' = NoToolResult
    /\ _tools' = EmptyDict
    /\ _instances' = EmptyDict
    /\ cleared' = cleared \cup {_tools[i].key : i \in 1..Len(_tools)}
    /\ UNCHANGED <<_loaded_tool_sets,
                   activity_vars, manager_vars>>

\* Mutant: execute_tool has no except branch, an exception of the tool
\* leaves it.
ExecuteToolCall_Propagates ==
    \E call \in RegistryToolCalls, run \in Runs :
        LET done == IF Has(_instances, call.tool_name)
                    THEN ValidateAndExecute(call.arguments, run)
                    ELSE Returns(None)
        IN /\ RegistryCallStarts
           /\ registry_call' = RegistryCall("execute_tool", "", call, run)
           /\ registry_raised' = IF done.raised THEN done ELSE Returns(None)
           /\ registry_returned' = IF done.raised THEN NoToolResult
                                   ELSE ExecuteToolOn(_instances, call, run)
           /\ UNCHANGED <<_tools, _instances, cleared, _loaded_tool_sets,
                   activity_vars, manager_vars>>

\* ToolRegistry.execute_tool(tool_call): returns a result, raises nothing,
\* assigns neither dict.
ExecuteToolCall ==
    \E call \in RegistryToolCalls, run \in Runs :
        /\ RegistryCallStarts
        /\ registry_call' = RegistryCall("execute_tool", "", call, run)
        /\ registry_raised' = Returns(None)
        /\ registry_returned' = ExecuteToolOn(_instances, call, run)
        /\ UNCHANGED <<_tools, _instances, cleared, _loaded_tool_sets,
                   activity_vars, manager_vars>>

RegistryNext ==
    \/ Register
    \/ Clear
    \/ ExecuteToolCall

RegistrySpec == RegistryInit /\ [][RegistryNext]_vars

\* -------------------------------------------------------- ToolSetRegistry
\* A ToolSetRegistry (src/shared/tool_set_registry.py): the ToolRegistry above,
\* wrapped, and the dict of the tool sets that were loaded.

\* Tool sets handed to register_tool_set: two sound ones, one whose classes
\* declare the same NAME, one whose last class cannot be constructed.
ToolSetNames == {"calc_set", "search_set", "clash_set", "broken_set"}

\* tool_classes of a tool set.
ToolSetClasses(tool_set_name) ==
    CASE tool_set_name = "calc_set" -> <<"CalcTool">>
      [] tool_set_name = "search_set" -> <<"SearchTool">>
      [] tool_set_name = "clash_set" -> <<"CalcTool", "CalcToolV2">>
      [] OTHER -> <<"SearchTool", "BrokenTool">>

\* The state of a ToolRegistry and whether the last call on it raised.
RegistryState(tools, instances, raised) ==
    [tools |-> tools, instances |-> instances, raised |-> raised]

\* ToolRegistry.register(tool_class) on a registry state.
RegisterInto(reg, tool_class) ==
    LET tool_name == NAME(tool_class)
    IN IF AlreadyRegistered(reg.tools, tool_name)
       THEN RegistryState(reg.tools, reg.instances,
                          Raises("ValueError",
                                 <<"Tool '", tool_name, "' is already registered.">>))
       ELSE IF ConstructorRaises(tool_class)
       THEN RegistryState(DictSet(reg.tools, tool_name, tool_class), reg.instances,
                          Raises("ValidationError", ConstructorErrorText))
       ELSE RegistryState(DictSet(reg.tools, tool_name, tool_class),
                          DictSet(reg.instances, tool_name, tool_class),
                          Returns(None))

\* Line 39-40: the loop over tool_classes; the first exception ends it.
RECURSIVE RegisterAll(_, _)
RegisterAll(reg, tool_classes) ==
    IF tool_classes = <<>> \/ reg.raised.raised THEN reg
    ELSE RegisterAll(RegisterInto(reg, Head(tool_classes)), Tail(tool_classes))

ToolSetInit == RegistryInit

\* ToolSetRegistry.register_tool_set(tool_set_name, description, tool_classes):
\* the wrapped registry is cleared, the classes are registered one by one, and
\* the set is recorded when no registration raised.
RegisterToolSet ==
    \E tool_set_name \in ToolSetNames :
        LET reg == RegisterAll(RegistryState(EmptyDict, EmptyDict, Returns(None)),
                               ToolSetClasses(tool_set_name))
        IN /\ RegistryCallStarts
           /\ registry_call' = RegistryCall("register_tool_set", "", ToolCall(""),
                                            Returns(None))
           /\ registry_returned' = NoToolResult
           /\ cleared' = cleared \cup {_tools[i].key : i \in 1..Len(_tools)}
           /\ _tools' = reg.tools
           /\ _instances' = reg.instances
           /\ registry_raised' = reg.raised
           /\ _loaded_tool_sets' =
                  IF reg.raised.raised THEN _loaded_tool_sets
                  ELSE DictSet(_loaded_tool_sets, tool_set_name, "description")
           /\ UNCHANGED <<activity_vars, manager_vars>>

\* ToolSetRegistry.clear(): the wrapped registry and the loaded sets are emptied.
ClearToolSets ==
    /\ RegistryCallStarts
    /\ registry_call' = RegistryCall("clear", "", ToolCall(""), Returns(None))
    /\ registry_raised' = Returns(None)
    /\ registry_returned' = NoToolResult
    /\ _tools' = EmptyDict
    /\ _instances' = EmptyDict
    /\ cleared' = cleared \cup {_tools[i].key : i \in 1..Len(_tools)}
    /\ _loaded_tool_sets' = EmptyDict
    /\ UNCHANGED <<activity_vars, manager_vars>>

\* ToolSetRegistry.get_tool_names()
GetToolNames == Keys(_tools)

\* ToolSetRegistry.get_loaded_tool_sets()
GetLoadedToolSets == _loaded_tool_sets

\* ToolSetRegistry.execute_tool delegates to the wrapped registry.
ToolSetNext ==
    \/ RegisterToolSet
    \/ ClearToolSets
    \/ ExecuteToolCall

ToolSetSpec == ToolSetInit /\ [][ToolSetNext]_vars

\* ---------------------------------------------------- ConversationManager
\* A ConversationEntry a caller creates for iteration i (no tools used).
NewEntry(i) ==
    [iteration |-> i,
     user_input |-> <<"Input ", ToString(i)>>,
     response |-> <<"Response ", ToString(i)>>,
     tool_calls_made |-> <<>>,
     tool_results |-> <<>>]

\* Line 343-349: the synthetic entry built from the compressor's result.
SummaryEntry(compression_result) ==
    [iteration |-> 0,
     user_input |-> <<"[COMPRESSED HISTORY]">>,
     response |-> <<"Summary: ">> \o compression_result.compressed_history
                  \o <<"\nContext: ">> \o compression_result.preserved_context,
     tool_calls_made |-> <<>>,
     tool_results |-> <<>>]

\* What a call of history_compressor does: it returns a result or raises.
CompressorOutcomes ==
    {Returns([compressed_history |-> <<"Compressed summary">>,
              preserved_context |-> <<"Important context">>]),
     Raises("Exception", <<"Mock compression error">>)}

\* The Python slice s[-n:] for n >= 0: s[-0:] is s[0:], the whole list.
LastSlice(s, n) ==
    IF n = 0 \/ n >= Len(s) THEN s ELSE SubSeq(s, Len(s) - n + 1, Len(s))

\* The Python slice s[:-n] for n >= 0: s[:-0] is s[:0], the empty list.
ButLastSlice(s, n) ==
    IF n = 0 \/ n >= Len(s) THEN <<>> ELSE SubSeq(s, 1, Len(s) - n)

\* Line 328, 338: history_compressor is called by _compress_history.
CompressorCalled(es, max_len) == Len(es) > max_len

\* ConversationManager._compress_history
CompressHistory(es, max_len, compression) ==
    IF ~CompressorCalled(es, max_len) THEN es
    ELSE LET recent_entries == LastSlice(es, max_len)
             older_entries == ButLastSlice(es, max_len)
         IN IF compression.raised
            THEN recent_entries
            ELSE <<SummaryEntry(compression.value)>> \o recent_entries

\* A variant that summarizes as soon as the list exceeds max_history_length.
AddConversationEntry_SummarizeAtLimit(es, new_entry, max_len, threshold, compression) ==
    LET updated == es \o <<new_entry>>
    IN IF Len(updated) > max_len
       THEN CompressHistory(updated, max_len, compression)
       ELSE updated

\* ConversationManager.add_conversation_entry
AddConversationEntry(es, new_entry, max_len, threshold, compression) ==
    LET updated == es \o <<new_entry>>
    IN IF Len(updated) > threshold
       THEN CompressHistory(updated, max_len, compression)
       ELSE IF Len(updated) > max_len
       THEN LastSlice(updated, max_len)
       ELSE updated

\* What is recorded of the compressor in a call.
CompressorSeen(called, compression) ==
    IF ~called THEN "not_called"
    ELSE IF compression.raised THEN "raised" ELSE "returned"

HistoryInit ==
    /\ ActivityIdle
    /\ RegistryIdle
    /\ max_history_length \in 0..MaxHistoryLength
    /\ auto_summarize_threshold \in 0..MaxSummarizeThreshold
    /\ \E k \in 0..MaxExisting :
           /\ entries = [i \in 1..k |-> NewEntry(i)]
           /\ added = k
           /\ existing = k
    /\ updated_entries = <<>>
    /\ compressor = "not_called"
    /\ manager_call = "none"
    /\ only_adds = TRUE
    /\ input_entries = <<>>

\* The caller adds the entry of its next iteration to the list it holds.
AddEntry ==
    /\ added < MaxEntries
    /\ \E compression \in CompressorOutcomes :
           LET new_entry == NewEntry(added + 1)
               updated == entries \o <<new_entry>>
               called == /\ Len(updated) > auto_summarize_threshold
                         /\ CompressorCalled(updated, max_history_length)
           IN /\ entries' = AddConversationEntry(entries, new_entry, max_history_length,
                                                 auto_summarize_threshold, compression)
              /\ updated_entries' = updated
              /\ compressor' = CompressorSeen(called, compression)
    /\ manager_call' = "add_conversation_entry"
    /\ added' = added + 1
    /\ input_entries' = entries
    /\ UNCHANGED <<max_history_length, auto_summarize_threshold, existing,
                   only_adds, activity_vars, registry_vars>>

\* The caller compresses the list it holds.
CompressEntries ==
    /\ Len(entries) <= MaxEntries
    /\ \E compression \in CompressorOutcomes :
           /\ entries' = CompressHistory(entries, max_history_length, compression)
           /\ compressor' = CompressorSeen(CompressorCalled(entries, max_history_length),
                                           compression)
    /\ updated_entries' = entries
    /\ manager_call' = "_compress_history"
    /\ only_adds' = FALSE
    /\ input_entries' = entries
    /\ UNCHANGED <<max_history_length, auto_summarize_threshold, added,
                   existing, activity_vars, registry_vars>>

HistoryNext ==
    \/ AddEntry
    \/ CompressEntries

HistorySpec == HistoryInit /\ [][HistoryNext]_vars

\* ------------------------------------------------------------- properties
Statuses == {"completed", "error_recovery", "terminated", "max_iterations"}

Returned == pc = "done"

LastEntry == conversation_history[Len(conversation_history)]

\* C1: run_activity never propagates an exception: it is always inside the
\* loop or has returned an ActivityResult with one of the four statuses; and
\* when get_next_action raised in iteration k the result is error_recovery,
\* total_iterations = k, and the exception text is in final_response and in
\* the last entry of errors_encountered.
C1_NeverPropagates ==
    /\ pc \in {"head", "agent", "tools", "done"}
    /\ Returned => result.status \in Statuses
    /\ ~escaped.none =>
          /\ Returned
          /\ result.status = "error_recovery"
          /\ result.total_iterations = agent_calls
          /\ result.final_response =
                 <<"Activity failed: ", "Unexpected error: ">> \o escaped.text
          /\ result.errors_encountered # <<>>
          /\ result.errors_encountered[Len(result.errors_encountered)] =
                 <<"Unexpected error: ">> \o escaped.text

\* An exception with a text escaped the second iteration, after a tool batch.
C1_Witness ==
    /\ Returned
    /\ escaped = Some(<<"boom">>)
    /\ agent_calls = 2
    /\ total_tool_calls > 0

\* C2: the agent loop is invoked at most max_iterations times and the
\* returned total_iterations never exceeds max_iterations.
C2_IterationCap ==
    /\ agent_calls <= max_iterations
    /\ iteration_count <= max_iterations
    /\ Returned => result.total_iterations <= max_iterations

\* The cap is met: max_iterations invocations, then the run ended.
C2_Witness ==
    /\ Returned
    /\ max_iterations = MaxIterations
    /\ agent_calls = max_iterations
    /\ result.total_iterations = max_iterations

\* C3: iteration_count equals the number of loop passes made (it is one
\* ahead while a pass is running, having been incremented before the agent
\* loop is invoked), and the iteration numbers recorded in
\* conversation_history are strictly increasing.
C3_IterationMonotonicity ==
    /\ pc \in {"head", "done"} => iteration_count = passes
    /\ pc \in {"agent", "tools"} => iteration_count = passes + 1
    /\ pc = "agent" => iteration_count = agent_calls + 1
    /\ \A i, j \in 1..Len(conversation_history) :
           i < j => conversation_history[i].iteration < conversation_history[j].iteration
    /\ \A i \in 1..Len(conversation_history) :
           conversation_history[i].iteration \in 1..iteration_count

\* Three passes were made; two of them recorded an entry, with a gap.
C3_Witness ==
    /\ Returned
    /\ result.status = "completed"
    /\ iteration_count = 3
    /\ Len(conversation_history) = 2
    /\ conversation_history[1].iteration = 1
    /\ conversation_history[2].iteration = 3

\* C4: when every decision was non-terminal and no timeout was detected, the
\* run ends with status max_iterations, total_iterations = max_iterations and
\* a final_response that mentions the maximum iterations.
C4_MaxIterationsPrecedence ==
    (Returned /\ nonterminal_only /\ result.status # "terminated") =>
        /\ result.status = "max_iterations"
        /\ result.total_iterations = max_iterations
        /\ agent_calls = max_iterations
        /\ result.final_response =
               <<"Activity reached maximum iterations (", ToString(max_iterations), ").">>

\* Three non-terminal decisions, one of them a tool batch, then exhaustion.
C4_Witness ==
    /\ Returned
    /\ nonterminal_only
    /\ max_iterations = 3
    /\ agent_calls = 3
    /\ conversation_history # <<>>
    /\ result.status = "max_iterations"

\* C5 (as claimed): ManualAgentLoop with max_iterations = 3 and an oracle
\* that always says "continue" without tools runs exactly 3 iterations and
\* ends with status max_iterations and total_iterations = 3.
C5_AlwaysContinueReachesMaxIterations ==
    (/\ Returned
     /\ agent_loop = "manual"
     /\ max_iterations = 3
     /\ oracle_plain
     /\ result.status # "terminated") =>
        /\ result.status = "max_iterations"
        /\ result.total_iterations = 3
        /\ agent_calls = 3

\* The elapsed time exceeded the timeout while fewer than max_iterations
\* iterations had been started.
DeadlineBeforeMax ==
    /\ deadline_iteration >= 1
    /\ deadline_iteration < max_iterations

\* C6 (as claimed): in every run where the timeout is exceeded before
\* max_iterations is reached, the returned status is terminated.
C6_TimeoutAlwaysTerminated ==
    (Returned /\ DeadlineBeforeMax) => result.status = "terminated"

\* C6 (amended): in such a run the status is never max_iterations; it is
\* terminated unless the iteration during which the deadline passed ended
\* the activity itself (a terminal decision or an exception), and then it is
\* completed or error_recovery.
C6_TimeoutPrecedence ==
    (Returned /\ DeadlineBeforeMax) =>
        /\ result.status # "max_iterations"
        /\ \/ result.status = "terminated"
           \/ /\ ~nonterminal_only
              /\ result.status \in {"completed", "error_recovery"}
              /\ iteration_count = deadline_iteration

\* The deadline passed during iteration 1 of 3, the iteration went on, and
\* the next boundary check ended the run.
C6_Witness ==
    /\ Returned
    /\ max_iterations = 3
    /\ deadline_iteration = 1
    /\ nonterminal_only
    /\ result.status = "terminated"

\* C7: a terminated result is produced only by the check at the top of a
\* loop pass, before iteration_count is incremented and without invoking
\* the agent loop, and its total_iterations is the number of passes that
\* ran; a pass that has started is never cut short: from the oracle call and
\* from every tool call the run goes on to the next call of the batch, and
\* every recorded entry holds one result per requested call.
C7_TimeoutOnlyAtBoundary ==
    /\ [](\A i \in 1..Len(conversation_history) :
              Len(conversation_history[i].tool_results) =
                  Len(conversation_history[i].tool_calls_made))
    /\ [][/\ (result'.status = "terminated" /\ result.status # "terminated") =>
                 /\ pc = "head"
                 /\ timed_out
                 /\ iteration_count' = iteration_count
                 /\ agent_calls' = agent_calls
                 /\ result'.total_iterations = passes
          /\ pc \in {"agent", "tools"} => result'.status # "terminated"
          /\ (pc = "tools" /\ Len(tool_results) + 1 < Len(decision.tool_calls)) =>
                 /\ pc' = "tools"
                 /\ Len(tool_results') = Len(tool_results) + 1
          /\ (pc = "tools" /\ Len(tool_results) + 1 = Len(decision.tool_calls)) =>
                 /\ pc' \in {"head", "done"}
                 /\ Len(last_tool_results'.results) = Len(decision.tool_calls)
         ]_vars

\* The deadline passed during the oracle call of an iteration that asked
\* for two tools; both ran and were recorded, and only then the run was
\* terminated.
C7_Witness ==
    /\ Returned
    /\ result.status = "terminated"
    /\ deadline_iteration = iteration_count
    /\ deadline_call = 0
    /\ conversation_history # <<>>
    /\ LastEntry.iteration = iteration_count
    /\ Len(LastEntry.tool_results) = 2

\* C8: an ERROR_RECOVERY decision in iteration k ends the run in that
\* iteration with status error_recovery and total_iterations = k; none of
\* the tool calls it may carry is executed and the agent loop is not invoked
\* again.
C8_ErrorRecoveryStops ==
    /\ [](decision.action_type = "error_recovery" =>
              /\ Returned
              /\ result.status = "error_recovery"
              /\ result.total_iterations = agent_calls
              /\ iteration_count = agent_calls
              /\ result.final_response = <<"Activity failed: ">> \o decision.reasoning
              /\ tool_results = <<>>)
    /\ [][decision'.action_type = "error_recovery" =>
              /\ total_tool_calls' = total_tool_calls
              /\ result'.total_tool_calls = total_tool_calls
              /\ tools_used' = tools_used
              /\ conversation_history' = conversation_history
              /\ last_tool_results' = last_tool_results
              /\ batch_outcomes' = batch_outcomes
              /\ (decision.action_type = "error_recovery" => agent_calls' = agent_calls)
         ]_vars

\* An ERROR_RECOVERY decision that carries a tool call, in the second
\* iteration.
C8_Witness ==
    /\ decision.action_type = "error_recovery"
    /\ decision.tool_calls # <<>>
    /\ agent_calls = 2
    /\ Returned

ResultMatches(r, call, outcome) ==
    /\ r.tool_name = call.tool_name
    /\ r.parameters = call.arguments
    /\ r.success = (outcome = "ok")
    /\ outcome = "ok" => r.error = None /\ ~r.result.none
    /\ outcome # "ok" => r.result = None /\ ~r.error.none
    /\ outcome = "not_found" => r.error = Some(<<"Unknown tool: ", call.tool_name>>)

\* Results, calls and outcomes agree position by position.
BatchMatches(results, calls, outcomes) ==
    /\ Len(results) = Len(outcomes)
    /\ Len(results) <= Len(calls)
    /\ \A j \in 1..Len(results) : ResultMatches(results[j], calls[j], outcomes[j])

\* C10: a batch of k calls returns exactly k results in call order; a call
\* that raises or fails gives success = false with a non-null error; every
\* other call is still executed and its result depends on that call alone.
C10_ToolFailureIsolation ==
    /\ pc = "tools" => BatchMatches(tool_results, decision.tool_calls, batch_outcomes)
    /\ (pc # "tools" /\ ~last_tool_results.none) =>
          /\ conversation_history # <<>>
          /\ LastEntry.tool_results = last_tool_results.results
          /\ Len(last_tool_results.results) = Len(LastEntry.tool_calls_made)
          /\ BatchMatches(last_tool_results.results, LastEntry.tool_calls_made,
                          batch_outcomes)

\* A batch of two: the first call raised, the second succeeded.
C10_Witness ==
    /\ pc # "tools"
    /\ ~last_tool_results.none
    /\ batch_outcomes = <<"registry_raises", "ok">>
    /\ Len(last_tool_results.results) = 2
    /\ ~last_tool_results.results[1].success
    /\ last_tool_results.results[2].success

\* The failed result ToolRegistry.execute_tool gives for the unregistered
\* tool "search".
UnknownSearchResult ==
    ToolResult(ToolCall("search"), FALSE, None,
               Some(<<"Unknown tool: ", "search">>), TRUE)

ExecuteToolReturned == registry_call.op = "execute_tool"

\* C12: execute_tool never raises; for an unknown name, for arguments that
\* fail validation and for a tool whose execute raises it returns a result
\* that carries the call's tool_name and arguments, has success = false and
\* the text of the failure as error; and it leaves both dicts as they were.
C12_ExecuteNeverRaises ==
    ExecuteToolReturned =>
        LET call == registry_call.call
            run == registry_call.run
            r == registry_returned
            known == Has(instances_before, call.tool_name)
        IN /\ ~registry_raised.raised
           /\ r.tool_name = call.tool_name
           /\ r.parameters = call.arguments
           /\ _tools = tools_before
           /\ _instances = instances_before
           /\ ~known =>
                  ~r.success /\ r.error = Some(<<"Unknown tool: ", call.tool_name>>)
           /\ (known /\ ~ValidArguments(call.arguments)) =>
                  ~r.success /\ r.error = Some(ValidationErrorText)
           /\ (known /\ ValidArguments(call.arguments) /\ run.raised) =>
                  ~r.success /\ r.error = Some(run.text)
           /\ (known /\ ValidArguments(call.arguments) /\ ~run.raised) =>
                  r.success /\ r.result = run.value

\* A registered tool, given valid arguments, raised; two tools are registered.
C12_Witness ==
    /\ ExecuteToolReturned
    /\ Len(_instances) = 2
    /\ Has(_instances, registry_call.call.tool_name)
    /\ ValidArguments(registry_call.call.arguments)
    /\ registry_call.run = Raises("Exception", ToolErrorText)
    /\ registry_returned.error = Some(ToolErrorText)

\* Exactly one of result / error is meaningful.
OneMeaningfulField(r) ==
    /\ r.success => r.error = None
    /\ ~r.success => (r.result = None /\ r.error # None)

\* Every ToolExecutionResult the activity holds: the running batch, the last
\* batch, and the recorded entries.
ActivityToolResults ==
    {tool_results[i] : i \in 1..Len(tool_results)}
    \cup {last_tool_results.results[i] : i \in 1..Len(last_tool_results.results)}
    \cup UNION {{conversation_history[k].tool_results[i] :
                     i \in 1..Len(conversation_history[k].tool_results)} :
                 k \in 1..Len(conversation_history)}

\* C13: every ToolExecutionResult produced by execute_tool or by
\* _execute_tools_sequential has exactly one meaningful field: success
\* implies error is null; failure implies result is null and error is not.
C13_OneMeaningfulField ==
    \A r \in ActivityToolResults : OneMeaningfulField(r)

\* A recorded batch holds a success made by execute_tool and a failure made
\* by the except branch of _execute_tools_sequential.
C13_Witness ==
    /\ conversation_history # <<>>
    /\ \E r \in ActivityToolResults : r.success /\ r.timed
    /\ \E r \in ActivityToolResults : ~r.success /\ ~r.timed

\* C14 (as claimed): a call whose arguments violate the tool's schema yields
\* a failed result marked as a validation error (kind ValidationError).
C14_ValidationErrorMarked ==
    (/\ ExecuteToolReturned
     /\ Has(instances_before, registry_call.call.tool_name)
     /\ ~ValidArguments(registry_call.call.arguments)) =>
        /\ ~registry_returned.success
        /\ registry_returned.error_type = Some(<<"ValidationError">>)

\* C15: every ActivityResult returned, whatever its status, carries a
\* non-empty final_response, also when the terminal decision has none.
C15_FinalResponseNonEmpty ==
    Returned =>
        /\ result.status \in Statuses
        /\ result.final_response # <<>>
        /\ \A i \in 1..Len(result.final_response) : result.final_response[i] # ""

\* A TOOL_EXECUTION decision without a final_response ended the run.
C15_Witness ==
    /\ Returned
    /\ result.status = "completed"
    /\ decision.action_type = "tool_execution"
    /\ ~Truthy(decision.final_response)
    /\ result.final_response = <<"Activity completed successfully.">>

\* s is an initial part of t.
IsPrefix(s, t) == Len(s) <= Len(t) /\ SubSeq(t, 1, Len(s)) = s

\* C16: register raises ValueError when the name is already registered and
\* then leaves both dicts as they were; no call but clear removes or
\* replaces a registration.
C16_RegisterDuplicateRaises ==
    /\ (registry_call.op = "register"
            /\ Has(tools_before, NAME(registry_call.tool_class))) =>
          /\ registry_raised =
                 Raises("ValueError",
                        <<"Tool '", NAME(registry_call.tool_class),
                          "' is already registered.">>)
          /\ _tools = tools_before
          /\ _instances = instances_before
    /\ registry_call.op \in {"register", "execute_tool"} =>
          /\ IsPrefix(tools_before, _tools)
          /\ IsPrefix(instances_before, _instances)

\* CalcToolV2 was registered while CalcTool held the name "calc", another
\* tool being registered as well.
C16_Witness ==
    /\ registry_call.op = "register"
    /\ registry_call.tool_class = "CalcToolV2"
    /\ registry_raised.raised
    /\ GetTool(_instances, "calc") = Some("CalcTool")
    /\ Len(_tools) = 2

\* C17: after clear(), get_tool returns None for every name and
\* get_tool_names() is empty, whatever was registered; and a name that
\* clear() removed registers again without raising, giving get_tool the
\* new instance.
C17_RegisterClearRoundTrip ==
    /\ registry_call.op = "clear" =>
          /\ \A c \in ToolClasses : GetTool(_instances, NAME(c)) = None
          /\ Keys(_tools) = <<>>
          /\ ~registry_raised.raised
    /\ (/\ registry_call.op = "register"
        /\ NAME(registry_call.tool_class) \in cleared
        /\ ~Has(tools_before, NAME(registry_call.tool_class))
        /\ ~ConstructorRaises(registry_call.tool_class)) =>
          /\ ~registry_raised.raised
          /\ GetTool(_instances, NAME(registry_call.tool_class)) =
                 Some(registry_call.tool_class)
          /\ Has(_tools, NAME(registry_call.tool_class))

\* "calc" and "search" were registered and cleared, and "calc" is registered
\* again, now with the other class.
C17_Witness ==
    /\ registry_call.op = "register"
    /\ cleared = {"calc", "search"}
    /\ tools_before = EmptyDict
    /\ ~registry_raised.raised
    /\ GetTool(_instances, "calc") = Some("CalcToolV2")

\* The n most recent entries of a list, in their order (none when n = 0).
MostRecent(es, n) ==
    IF n >= Len(es) THEN es ELSE SubSeq(es, Len(es) - n + 1, Len(es))

\* C18 (as claimed): add_conversation_entry returns the appended list
\* unchanged when it has at most max_history_length entries, and exactly its
\* most recent max_history_length entries, in order, when it has more than
\* that and at most auto_summarize_threshold.
C18_TruncationPolicy ==
    manager_call = "add_conversation_entry" =>
        /\ Len(updated_entries) <= max_history_length =>
               entries = updated_entries
        /\ (/\ Len(updated_entries) > max_history_length
            /\ Len(updated_entries) <= auto_summarize_threshold) =>
               /\ entries = MostRecent(updated_entries, max_history_length)
               /\ Len(entries) = max_history_length

\* C19 (as claimed): when the history is longer than auto_summarize_threshold
\* and summarization succeeds, the result is one summary entry (iteration 0,
\* user_input "[COMPRESSED HISTORY]") followed by the most recent
\* max_history_length entries: max_history_length + 1 entries.
C19_CompressionShape ==
    (/\ manager_call # "none"
     /\ Len(updated_entries) > auto_summarize_threshold
     /\ compressor = "returned") =>
        /\ Len(entries) = max_history_length + 1
        /\ entries[1].iteration = 0
        /\ entries[1].user_input = <<"[COMPRESSED HISTORY]">>
        /\ Tail(entries) = MostRecent(updated_entries, max_history_length)

\* C20 (as claimed): when the summarizer raises during compression the
\* result is exactly the most recent max_history_length entries, with no
\* summary entry added.
C20_CompressionFallback ==
    (manager_call # "none" /\ compressor = "raised") =>
        /\ entries = MostRecent(updated_entries, max_history_length)
        /\ Len(entries) = max_history_length

\* get_next_action was called on its own and the oracle returned an output.
AgentReasoned ==
    /\ reasoner_calls > 0
    /\ ~oracle_outcome.raised

\* The validated output asks for tools and names at least one call.
AsksForTools(ro) == ro.should_use_tools /\ CallsTruthy(ro.tool_calls)

\* The decision carries the fields of the validated output and the state's
\* iteration count.
CarriesOutput(d, ro, state) ==
    /\ d.tool_calls = (IF ro.tool_calls.none THEN <<>> ELSE ro.tool_calls.calls)
    /\ d.should_continue = ro.should_continue
    /\ d.final_response = ro.final_response
    /\ d.confidence_score = ro.confidence
    /\ d.iteration_count = state.iteration_count

\* C21: the validated oracle output is mapped onto a decision: tools asked for
\* with a non-empty tool_calls list give TOOL_EXECUTION, also when
\* should_continue is false; otherwise should_continue = false gives
\* FINAL_RESPONSE; either decision carries the output's tool_calls,
\* should_continue, final_response and confidence and the state's
\* iteration_count.
C21_DecisionMapping ==
    AgentReasoned =>
        /\ AsksForTools(reasoning_output) =>
               /\ action_decision.action_type = "tool_execution"
               /\ CarriesOutput(action_decision, reasoning_output, conversation_state)
        /\ (~AsksForTools(reasoning_output) /\ ~reasoning_output.should_continue) =>
               /\ action_decision.action_type = "final_response"
               /\ CarriesOutput(action_decision, reasoning_output, conversation_state)

\* Tools were asked for together with should_continue = false, and the
\* decision is a TOOL_EXECUTION carrying a call.
C21_Witness ==
    /\ AgentReasoned
    /\ AsksForTools(reasoning_output)
    /\ ~reasoning_output.should_continue
    /\ action_decision.action_type = "tool_execution"
    /\ action_decision.tool_calls # <<>>
    /\ conversation_state.iteration_count > 0

\* C22: when the validated output asks for no tools and should_continue is
\* true, get_next_action returns a decision of type CONTINUE.
C22_ContinueDecision ==
    (AgentReasoned /\ ~AsksForTools(reasoning_output)
                   /\ reasoning_output.should_continue) =>
        /\ action_decision.action_type = "continue"
        /\ action_decision.should_continue

\* The text t ends with the text e.
EndsWith(t, e) ==
    /\ Len(e) <= Len(t)
    /\ SubSeq(t, Len(t) - Len(e) + 1, Len(t)) = e

\* The decision get_next_action makes of an exception with text e.
IsErrorDecision(d, e, state) ==
    /\ d.action_type = "error_recovery"
    /\ d.tool_calls = <<>>
    /\ ~d.should_continue
    /\ d.confidence_score = 0
    /\ Truthy(d.final_response)
    /\ EndsWith(d.final_response.text, e)
    /\ d.iteration_count = state.iteration_count

\* Building the ActionDecision raises: the output maps to no action type.
BuildingRaises(ro) == ~AsksForTools(ro) /\ ro.should_continue

\* C23: get_next_action never raises and calls the reasoner once; when the
\* reasoner raises, or building the decision raises, it returns an
\* ERROR_RECOVERY decision with no tool calls, should_continue = false,
\* confidence 0, a final_response containing the error text and the state's
\* iteration_count.
C23_ErrorDecision ==
    reasoner_calls > 0 =>
        /\ ~agent_raised
        /\ reasoner_calls = 1
        /\ oracle_outcome.raised =>
               IsErrorDecision(action_decision, oracle_outcome.error,
                               conversation_state)
        /\ (~oracle_outcome.raised /\ BuildingRaises(reasoning_output)) =>
               IsErrorDecision(action_decision, AttributeErrorText,
                               conversation_state)

\* The oracle raised with a non-empty text at a positive iteration count, and
\* the call returned a decision.
C23_Witness ==
    /\ reasoner_calls = 1
    /\ oracle_outcome.raised
    /\ oracle_outcome.error # <<>>
    /\ conversation_state.iteration_count > 0
    /\ action_decision.action_type = "error_recovery"

\* C24: after validation, an iteration_count that has reached max_iterations
\* gives should_continue = false, and every output with should_continue =
\* false has a non-empty final_response: the oracle's own when it gave a
\* non-empty one, a fallback text otherwise.
C24_ValidatedStopHasResponse ==
    AgentReasoned =>
        /\ (conversation_state.iteration_count
                >= EffectiveMaxIterations(conversation_state.max_iterations)) =>
               ~reasoning_output.should_continue
        /\ ~reasoning_output.should_continue =>
               /\ Truthy(reasoning_output.final_response)
               /\ Truthy(oracle_outcome.output.final_response) =>
                      reasoning_output.final_response
                          = oracle_outcome.output.final_response
               /\ ~Truthy(oracle_outcome.output.final_response) =>
                      reasoning_output.final_response
                          \in {Some(MaxIterationsReply), Some(FallbackReply)}

\* The oracle wanted to continue without a final response at the last
\* iteration, and the validated output stops with a response.
C24_Witness ==
    /\ AgentReasoned
    /\ oracle_outcome.output.should_continue
    /\ ~Truthy(oracle_outcome.output.final_response)
    /\ conversation_state.max_iterations > 0
    /\ conversation_state.iteration_count >= conversation_state.max_iterations
    /\ ~reasoning_output.should_continue
    /\ Truthy(reasoning_output.final_response)

\* Every call of the list names a tool of tool_names.
AllRegistered(calls) ==
    \A i \in 1..Len(calls) : calls[i].tool_name \in tool_names

\* The calls of an Optional list, [] for None.
CallsOf(o) == IF o.none THEN <<>> ELSE o.calls

\* The calls of the list that name a tool of tool_names, in their order.
ValidCalls(calls) ==
    LET Valid(c) == c.tool_name \in tool_names IN SelectSeq(calls, Valid)

\* C25: after validation, whatever the oracle's should_use_tools flag, the
\* output's tool_calls name registered tools only, and they are the oracle's
\* valid calls in their original order; the decision carries the same list.
C25_OnlyRegisteredCalls ==
    AgentReasoned =>
        /\ AllRegistered(CallsOf(reasoning_output.tool_calls))
        /\ CallsOf(reasoning_output.tool_calls)
               = ValidCalls(CallsOf(oracle_outcome.output.tool_calls))
        /\ AllRegistered(action_decision.tool_calls)

\* C26: a TOOL_EXECUTION decision has a non-empty tool_calls list naming
\* registered tools only; an oracle output that asked for tools and is left
\* with no call after the repair has should_use_tools = false and does not
\* give a TOOL_EXECUTION decision.
C26_ToolExecutionHasValidCalls ==
    AgentReasoned =>
        /\ action_decision.action_type = "tool_execution" =>
               /\ action_decision.tool_calls # <<>>
               /\ AllRegistered(action_decision.tool_calls)
        /\ (/\ oracle_outcome.output.should_use_tools
            /\ ValidCalls(CallsOf(oracle_outcome.output.tool_calls)) = <<>>) =>
               /\ ~reasoning_output.should_use_tools
               /\ action_decision.action_type # "tool_execution"

\* The oracle asked for a registered and an unregistered tool: the decision
\* is a TOOL_EXECUTION with the registered call alone.
C26_Witness ==
    /\ AgentReasoned
    /\ oracle_outcome.output.should_use_tools
    /\ Len(CallsOf(oracle_outcome.output.tool_calls)) = 2
    /\ Len(action_decision.tool_calls) = 1
    /\ action_decision.action_type = "tool_execution"

\* The oracle asked for an unregistered tool only: the flag is reset and the
\* decision is not a TOOL_EXECUTION.
C26_WitnessRepaired ==
    /\ AgentReasoned
    /\ oracle_outcome.output.should_use_tools
    /\ CallsOf(oracle_outcome.output.tool_calls) # <<>>
    /\ ~reasoning_output.should_use_tools
    /\ action_decision.action_type = "final_response"

\* Every tool result of the history, in execution order.
RECURSIVE HistoryResults(_)
HistoryResults(history) ==
    IF history = <<>> THEN <<>>
    ELSE Head(history).tool_results \o HistoryResults(Tail(history))

\* An errors_encountered entry written for a failed tool result.
IsToolError(e) == e # <<>> /\ e[1] = "Tool "

\* C27: at every returned ActivityResult the metrics agree with the history:
\* total_tool_calls is the number of tool results of all entries, tools_used
\* is the set of their tool names, the 'Tool <name>: <error>' entries of
\* errors_encountered are those of the failed results in execution order, and
\* last_tool_results is the result list of the latest tool iteration.
C27_MetricsAgreeWithHistory ==
    Returned =>
        LET all == HistoryResults(conversation_history)
        IN /\ result.total_tool_calls = Len(all)
           /\ result.tools_used = {all[i].tool_name : i \in 1..Len(all)}
           /\ SelectSeq(result.errors_encountered, IsToolError) = BatchErrors(all)
           /\ last_tool_results =
                  (IF conversation_history = <<>> THEN NoResults
                   ELSE SomeResults(LastEntry.tool_results))

\* An activity returned after two tool iterations, one with a failed and one
\* with a successful result.
C27_Witness ==
    /\ Returned
    /\ Len(conversation_history) = 2
    /\ \E i \in 1..Len(conversation_history[1].tool_results) :
           ~conversation_history[1].tool_results[i].success
    /\ \E i \in 1..Len(conversation_history[2].tool_results) :
           conversation_history[2].tool_results[i].success
    /\ result.total_tool_calls = 2

\* An entry made by _compress_history.
IsSummary(e) == e.iteration = 0 /\ e.user_input = <<"[COMPRESSED HISTORY]">>

\* The summary entries of a list.
Summaries(es) == SelectSeq(es, IsSummary)

\* C28 (as claimed): over any sequence of add_conversation_entry calls a
\* summary entry does not stay: it is dropped by a later truncation or folded
\* into a new summary, so the list never holds more than one summary entry.
C28_AtMostOneSummary ==
    only_adds => Len(Summaries(entries)) <= 1

\* C28 for a manager that keeps at least one entry: at most one summary entry,
\* and it is the first entry of the list.
C28_AtMostOneSummaryWhenKeeping ==
    (only_adds /\ max_history_length >= 1) =>
        /\ Len(Summaries(entries)) <= 1
        /\ \A i \in 2..Len(entries) : ~IsSummary(entries[i])

\* C30: for a list built by add_conversation_entry calls alone from the empty
\* list, with 1 <= max_history_length < auto_summarize_threshold, every
\* returned list has at most max_history_length entries and ends with the
\* entry just added, the list passed in is left as it was, the compressor is
\* never called and no summary entry appears.
C30_PlainTruncationOnly ==
    (/\ manager_call = "add_conversation_entry"
     /\ only_adds
     /\ existing = 0
     /\ 1 <= max_history_length
     /\ max_history_length < auto_summarize_threshold) =>
        /\ Len(entries) <= max_history_length
        /\ entries # <<>>
        /\ entries[Len(entries)] = NewEntry(added)
        /\ updated_entries = input_entries \o <<NewEntry(added)>>
        /\ compressor = "not_called"
        /\ Summaries(entries) = <<>>

\* Five entries were added to an empty list by a manager that keeps two and
\* summarizes above three: the list was truncated.
C30_Witness ==
    /\ manager_call = "add_conversation_entry"
    /\ only_adds
    /\ existing = 0
    /\ max_history_length = 2
    /\ auto_summarize_threshold = 3
    /\ added = 5
    /\ Len(entries) = 2

\* The elements of a sequence.
Range(q) == {q[i] : i \in 1..Len(q)}

\* The tool names the classes of a tool set declare.
ToolSetToolNames(tool_set_name) ==
    {NAME(c) : c \in Range(ToolSetClasses(tool_set_name))}

\* C29: after any sequence of register_tool_set and clear calls, the
\* registered tool names are exactly the tools of the tool sets that
\* get_loaded_tool_sets reports: every reported set has all its tools
\* registered, and every registered tool belongs to a reported set.
C29_LoadedSetsMatchTools ==
    LET loaded == Range(Keys(GetLoadedToolSets))
    IN Range(GetToolNames) = UNION {ToolSetToolNames(n) : n \in loaded}

\* C29, first half alone: every tool set reported as loaded has all its tools
\* registered.
C29_ReportedSetsAreRegistered ==
    \A n \in Range(Keys(GetLoadedToolSets)) :
        ToolSetToolNames(n) \subseteq Range(GetToolNames)

\* C29, second half alone: every registered tool belongs to a reported set.
C29_RegisteredToolsAreReported ==
    Range(GetToolNames) \subseteq
        UNION {ToolSetToolNames(n) : n \in Range(Keys(GetLoadedToolSets))}

====
